---- MODULE Spec2Model ----
(***************************************************************************)
(* Model of the fill-driven mirroring engine of the Hyperliquid copy       *)
(* trading bot: the fill stream with its reconnection (hyperliquidClient), *)
(* the per-fill pipeline handleFill -> calculateTradeParams ->             *)
(* executeTrade -> placeOrder with its retries, and the active-trade set.  *)
(*                                                                         *)
(* The repository holds two CopyTrader implementations: the one that uses  *)
(* retryWithBackoff (src/unnamed/part_002) and the one with a hand-written *)
(* retry loop (src/src/copyTrader.ts).  The variable impl says which one   *)
(* runs; it is chosen in Init and never changes.                           *)
(*                                                                         *)
(* Every await of the code is a suspension point: each action below is the *)
(* code that runs between two suspensions of one callback.                 *)
(***************************************************************************)
EXTENDS Integers, Sequences, FiniteSets, TLC

\* ------------------------------------------------------------ bounds
\* config.MAX_CONCURRENT_TRADES as configured for the model
MAX_CONCURRENT_TRADES == 1
\* fills the exchange sends in the engine specification
MaxFills == 2
\* fills the exchange sends in the one-fill and the stream specifications
MaxFillsAlone == 1
\* reconnection attempts the model follows after a disconnect
MaxReconnects == 12
\* health-check cycles the model follows
MaxCycles == 3
\* the largest fill size given to getTradeAction
MaxSz == 3
\* the largest leverage the target's position carries
MaxTargetLeverage == 50
\* the largest leverage of an order handed to placeOrder
MaxOrderLeverage == 3

\* ------------------------------------------------------------ program constants
\* retryWithBackoff's config.maxRetries as passed by handleFill and executeTrade
maxRetries == 3
\* reconnect's maxAttempts
maxAttempts == 10

Coins == {"BTC", "ETH"}

Impls == {"retry", "legacy"}

VARIABLES
  impl,          \* which CopyTrader runs: "retry" (part_002) or "legacy" (copyTrader.ts)
  DRY_RUN,       \* config.DRY_RUN
  run,           \* main: "init" before copyTrader.start(), "running", "exited"
  sockets,       \* the WebSocket objects not yet closed, oldest first
  wsClient,      \* this.wsClient: index in sockets, 0 if none or already closed
  isConnected,   \* this.isConnected
  timers,        \* pending reconnect timers: the attempt number each carries
  unsubscribeFn, \* CopyTrader.unsubscribeFn: "none", "closure" or "promise"
  stopped,       \* CopyTrader.stop() has been called
  reconnects,    \* reconnection attempts made since the last 'open' event
  exhausted,     \* reconnect reached 'Max reconnection attempts reached'
  fatal,         \* the errors that reached the process-level handlers of main
  activeTrades,  \* CopyTrader.activeTrades
  handlers,      \* the handleFill invocations, in arrival order
  fillsLeft,     \* fills the exchange will still send
  tradeSize,     \* CopyTradeParams.size of the trade computed: <<>> or <<string>>
  orderSz,       \* the sz passed to exchangeClient.order: <<>> or <<string>>
  lastResult,    \* HealthChecker.lastResult: <<>> or <<HealthCheckResult>>
  intervalId,    \* HealthChecker.intervalId: "none" (undefined) or "timer"
  inFlight,      \* the checkHealth cycles started and not yet settled
  cycles,        \* checkHealth cycles started so far
  args,          \* the arguments of the risk function called: <<>> or <<record>>
  result         \* what that call returned: <<>> or <<value>>

vars == <<impl, DRY_RUN, run, sockets, wsClient, isConnected, timers,
          unsubscribeFn, stopped, reconnects, exhausted, fatal,
          activeTrades, handlers, fillsLeft, tradeSize, orderSz, lastResult,
          intervalId, inFlight, cycles, args, result>>

\* what the stream and the engine never touch
sideVars == <<tradeSize, orderSz, lastResult, intervalId, inFlight, cycles, args, result>>

\* no trade computed, no order sent, the health checker not started
SideInit ==
  /\ tradeSize = <<>> /\ orderSz = <<>> /\ lastResult = <<>>
  /\ intervalId = "none" /\ inFlight = {} /\ cycles = 0
  /\ args = <<>> /\ result = <<>>

streamVars == <<sockets, wsClient, isConnected, timers, reconnects, exhausted>>

\* ------------------------------------------------------------ fills
\* FillEvent (types.ts), with sz and startPosition as integers
Fill(coin, dir, sz, startPosition, side) ==
  [coin |-> coin, dir |-> dir, sz |-> sz, startPosition |-> startPosition,
   side |-> side]

\* the fills the exchange sends: an open, a full close and a partial close
Fills ==
  UNION {{Fill(c, "Open Long", 1, 0, "B"),
          Fill(c, "Close Long", 1, 1, "A"),
          Fill(c, "Close Long", 1, 2, "A")} : c \in Coins}

Abs(x) == IF x < 0 THEN -x ELSE x

\* mutant of getTradeAction: a fill as large as the position only reduces it
getTradeActionStrict(fill) ==
  IF fill.dir = "Open Long" \/ fill.dir = "Open Short" THEN "open"
  ELSE IF fill.dir = "Close Long" \/ fill.dir = "Close Short"
       THEN IF Abs(fill.startPosition) < fill.sz THEN "close" ELSE "reduce"
       ELSE "reduce"

getTradeAction(fill) ==
  IF fill.dir = "Open Long" \/ fill.dir = "Open Short" THEN "open"
  ELSE IF fill.dir = "Close Long" \/ fill.dir = "Close Short"
       THEN IF Abs(fill.startPosition) <= fill.sz THEN "close" ELSE "reduce"
       ELSE "reduce"

\* ------------------------------------------------------------ errors
\* AppError and its subclasses: the class fixes code and retryable, except
\* TradingError, whose constructor takes the flag
AppError(name, message, retryable) ==
  [name |-> name, message |-> message, retryable |-> retryable]

NetworkError(message) == AppError("NetworkError", message, TRUE)
AccountError(message) == AppError("AccountError", message, FALSE)
TradingError(message, retryable) == AppError("TradingError", message, retryable)
ValidationError(message) == AppError("ValidationError", message, FALSE)

\* ErrorHandler.isRetryable; every error the gateway raises is an AppError
isRetryable(error) == error.retryable

\* mutant of retryWithBackoff: the loop gives up one attempt later
retryWithBackoffOneMore(error, attempt) ==
  IF ~isRetryable(error) THEN "throw"
  ELSE IF attempt > maxRetries THEN "exhausted"
  ELSE "wait"

\* what one pass of retryWithBackoff's loop does with the error of attempt
\* number `attempt`: rethrow it, give up after the last attempt, or wait and
\* try again
retryWithBackoff(error, attempt) ==
  IF ~isRetryable(error) THEN "throw"
  ELSE IF attempt >= maxRetries THEN "exhausted"
  ELSE "wait"

\* mutant of legacyRetryLoop: the loop waits after the last attempt too
legacyRetryLoopOneMore(error, attempt) ==
  IF attempt <= maxRetries THEN "wait" ELSE "exhausted"

\* the retry loop written out in executeTrade of copyTrader.ts: every error
\* is caught and the next attempt made while attempts remain
legacyRetryLoop(error, attempt) ==
  IF attempt < maxRetries THEN "wait" ELSE "exhausted"

\* ------------------------------------------------------------ gateway
\* getAccountEquity: the equity pair, or the error it throws
EquityOutcomes ==
  {[ok |-> TRUE, nan |-> FALSE, error |-> AppError("", "", FALSE)],
   [ok |-> TRUE, nan |-> TRUE, error |-> AppError("", "", FALSE)],
   [ok |-> FALSE, nan |-> FALSE,
    error |-> NetworkError("Failed to fetch account equity")],
   [ok |-> FALSE, nan |-> FALSE,
    error |-> AccountError("Invalid account state response")]}

\* getPositions: the positions, or the error it throws
PositionsOutcomes ==
  {[ok |-> TRUE, error |-> AppError("", "", FALSE)],
   [ok |-> FALSE, error |-> NetworkError("Failed to fetch positions")],
   [ok |-> FALSE, error |-> AccountError("Invalid user state response")]}

\* mutant of PlaceOrderOutcomes: DRY_RUN is looked at after the leverage call
PlaceOrderOutcomesLateDryRun(params, dryRun) ==
  IF params = "bad"
  THEN {[ok |-> FALSE, sent |-> FALSE, called |-> FALSE,
         error |-> TradingError("Invalid order parameters", FALSE)]}
  ELSE {[ok |-> TRUE, sent |-> FALSE, called |-> TRUE,
         error |-> AppError("", "", FALSE)]}

\* placeOrder: what one call can end in.  params is "bad" when the
\* parameter check rejects it (empty coin, or a size string that parses to
\* a number <= 0), "good" otherwise.  called says whether updateLeverage or
\* the order endpoint of the exchange was called, sent whether the order
\* call was answered by the exchange.
PlaceOrderOutcomes(params, dryRun) ==
  IF params = "bad"
  THEN {[ok |-> FALSE, sent |-> FALSE, called |-> FALSE,
         error |-> TradingError("Invalid order parameters", FALSE)]}
  ELSE IF dryRun
  THEN {[ok |-> TRUE, sent |-> FALSE, called |-> FALSE,
         error |-> AppError("", "", FALSE)]}
  ELSE {[ok |-> TRUE, sent |-> TRUE, called |-> TRUE,
         error |-> AppError("", "", FALSE)],
        [ok |-> FALSE, sent |-> TRUE, called |-> TRUE,
         error |-> TradingError("Invalid order response", TRUE)],
        [ok |-> FALSE, sent |-> TRUE, called |-> TRUE,
         error |-> TradingError("Order placed but no order ID returned", TRUE)],
        [ok |-> FALSE, sent |-> FALSE, called |-> TRUE,
         error |-> TradingError("Failed to place order", TRUE)]}

\* ------------------------------------------------------------ fill stream
Live == {"connecting", "open", "closing"}

RemoveAt(seq, i) == SubSeq(seq, 1, i - 1) \o SubSeq(seq, i + 1, Len(seq))

\* reconnect's base delay and its cap, in ms
baseDelay == 1000
maxDelay == 30000

RECURSIVE pow2(_)
\* Math.pow(2, n)
pow2(n) == IF n = 0 THEN 1 ELSE 2 * pow2(n - 1)

\* mutant of reconnectDelay: the exponent is the attempt number itself
reconnectDelayLate(attempt) ==
  IF baseDelay * pow2(attempt) <= maxDelay
  THEN baseDelay * pow2(attempt) ELSE maxDelay

\* reconnect: delay = Math.min(1000 * Math.pow(2, attempt - 1), 30000)
reconnectDelay(attempt) ==
  IF baseDelay * pow2(attempt - 1) <= maxDelay
  THEN baseDelay * pow2(attempt - 1) ELSE maxDelay

\* reconnect(address, onFill, attempt): past maxAttempts it logs and
\* returns, otherwise it arms a timer that carries the attempt number
reconnectTimers(ts, attempt) ==
  IF attempt > maxAttempts THEN ts ELSE Append(ts, attempt)

reconnectExhausted(attempt) == attempt > maxAttempts

\* subscribeToUserFills up to its return: a new socket, held in this.wsClient
NewSocket ==
  /\ sockets' = Append(sockets, "connecting")
  /\ wsClient' = Len(sockets) + 1

\* WebSocket.close(): starts the closing of a socket that is not closed yet
CloseSocket(state) == IF state \in {"connecting", "open"} THEN "closing" ELSE state

Init ==
  /\ impl \in Impls
  /\ DRY_RUN = FALSE
  /\ run = "init"
  /\ sockets = <<>>
  /\ wsClient = 0
  /\ isConnected = FALSE
  /\ timers = <<>>
  /\ unsubscribeFn = "none"
  /\ stopped = FALSE
  /\ reconnects = 0
  /\ exhausted = FALSE
  /\ fatal = <<>>
  /\ activeTrades = {}
  /\ handlers = <<>>
  /\ fillsLeft = MaxFills
  /\ SideInit

\* CopyTrader.start called by main: subscribeToUserFills creates the socket;
\* part_002 awaits the returned promise, copyTrader.ts stores the promise
Start ==
  /\ run = "init"
  /\ run' = "running"
  /\ NewSocket
  /\ unsubscribeFn' = IF impl = "retry" THEN "closure" ELSE "promise"
  /\ UNCHANGED <<sideVars, impl, DRY_RUN, isConnected, timers, stopped, reconnects,
                 exhausted, fatal, activeTrades, handlers, fillsLeft>>

\* the 'open' handler: sends the subscription
SocketOpen(i) ==
  /\ run = "running"
  /\ sockets[i] = "connecting"
  /\ sockets' = [sockets EXCEPT ![i] = "open"]
  /\ isConnected' = TRUE
  /\ reconnects' = 0
  /\ UNCHANGED <<sideVars, impl, DRY_RUN, run, wsClient, timers, unsubscribeFn, stopped,
                 exhausted, fatal, activeTrades, handlers, fillsLeft>>

\* mutant of SocketError: the 'error' handler asks for a reconnection too
SocketErrorReconnects(i) ==
  /\ run = "running"
  /\ sockets[i] \in {"connecting", "open"}
  /\ sockets' = [sockets EXCEPT ![i] = "closing"]
  /\ isConnected' = FALSE
  /\ timers' = reconnectTimers(timers, 1)
  /\ UNCHANGED <<sideVars, impl, DRY_RUN, run, wsClient, unsubscribeFn, stopped,
                 reconnects, exhausted, fatal, activeTrades, handlers, fillsLeft>>

\* the 'error' handler; the socket is torn down after an error
SocketError(i) ==
  /\ run = "running"
  /\ sockets[i] \in {"connecting", "open"}
  /\ sockets' = [sockets EXCEPT ![i] = "closing"]
  /\ isConnected' = FALSE
  /\ UNCHANGED <<sideVars, impl, DRY_RUN, run, wsClient, timers, unsubscribeFn, stopped,
                 reconnects, exhausted, fatal, activeTrades, handlers, fillsLeft>>

\* the 'close' handler: this.reconnect(address, onFill), attempt = 1
SocketClose(i) ==
  /\ run = "running"
  /\ sockets[i] \in Live
  /\ sockets' = RemoveAt(sockets, i)
  /\ wsClient' = IF wsClient = i THEN 0
                 ELSE IF wsClient > i THEN wsClient - 1 ELSE wsClient
  /\ isConnected' = FALSE
  /\ timers' = reconnectTimers(timers, 1)
  /\ exhausted' = (exhausted \/ reconnectExhausted(1))
  /\ UNCHANGED <<sideVars, impl, DRY_RUN, run, unsubscribeFn, stopped, reconnects, fatal,
                 activeTrades, handlers, fillsLeft>>

\* a reconnect timer fires and subscribeToUserFills returns a new socket
ReconnectOk(k) ==
  /\ run = "running"
  /\ reconnects < MaxReconnects
  /\ timers' = RemoveAt(timers, k)
  /\ NewSocket
  /\ reconnects' = reconnects + 1
  /\ UNCHANGED <<sideVars, impl, DRY_RUN, run, isConnected, unsubscribeFn, stopped,
                 exhausted, fatal, activeTrades, handlers, fillsLeft>>

\* a reconnect timer fires and subscribeToUserFills throws: the catch calls
\* this.reconnect(address, onFill, attempt + 1)
ReconnectThrow(k) ==
  /\ run = "running"
  /\ reconnects < MaxReconnects
  /\ timers' = reconnectTimers(RemoveAt(timers, k), timers[k] + 1)
  /\ exhausted' = (exhausted \/ reconnectExhausted(timers[k] + 1))
  /\ reconnects' = reconnects + 1
  /\ UNCHANGED <<sideVars, impl, DRY_RUN, run, sockets, wsClient, isConnected,
                 unsubscribeFn, stopped, fatal, activeTrades, handlers, fillsLeft>>

\* mutant of clearInterval: the timer stays armed
clearIntervalKept(id) == id

\* HealthChecker.stop: clearInterval(this.intervalId); this.intervalId = undefined
clearInterval(id) == "none"

\* shutdown up to its await: copyTrader.stop() and then healthChecker.stop().
\* part_002: the unsubscribe closure closes this.wsClient and clears
\* isConnected.  copyTrader.ts: unsubscribeFn is a promise, the call throws a
\* TypeError, which leaves shutdown as a rejection that reaches the
\* 'unhandledRejection' handler of main before healthChecker.stop() is called
Stop ==
  /\ run = "running"
  /\ ~stopped
  /\ stopped' = TRUE
  /\ IF unsubscribeFn = "closure"
     THEN /\ sockets' = IF wsClient = 0 THEN sockets
                        ELSE [sockets EXCEPT ![wsClient] = CloseSocket(@)]
          /\ isConnected' = FALSE
          /\ unsubscribeFn' = "none"
          /\ fatal' = fatal
          /\ intervalId' = clearInterval(intervalId)
     ELSE /\ fatal' = Append(fatal, "TypeError")
          /\ UNCHANGED <<sockets, isConnected, unsubscribeFn, intervalId>>
  /\ UNCHANGED <<tradeSize, orderSz, lastResult, inFlight, cycles,
                 impl, DRY_RUN, run, wsClient, timers, reconnects, exhausted,
                 activeTrades, handlers, fillsLeft,
                 args, result>>

\* the rest of shutdown (main): after copyTrader.stop() has returned and
\* cleanupTelegramBot has settled, process.exit(0) ends every callback
Exit ==
  /\ run = "running"
  /\ stopped
  /\ unsubscribeFn = "none"
  /\ run' = "exited"
  /\ UNCHANGED <<sideVars, impl, DRY_RUN, sockets, wsClient, isConnected, timers,
                 unsubscribeFn, stopped, reconnects, exhausted, fatal,
                 activeTrades, handlers, fillsLeft>>

\* ------------------------------------------------------------ copy engine
NoError == AppError("", "", FALSE)

\* a handleFill invocation suspended at the await named by pc
\*   attempt  the attempt number of the retried call it waits for
\*   nanEq    an equity parsed to NaN (copyTrader.ts goes on with it)
\*   params   the trade params: "none", "good" or "bad" (see PlaceOrderOutcomes)
\*   exec     executeTrade: "none" (not ended), "returned" or "raised"
\*   outcome  how handleFill ended, "none" while it runs
\*   error    the message of the failed TradeResult or of the caught error
Handler(fill, pc, attempt, nanEq, params, exec, outcome, error) ==
  [fill |-> fill, pc |-> pc, attempt |-> attempt, nanEq |-> nanEq,
   params |-> params, exec |-> exec, outcome |-> outcome, error |-> error]

\* handleFill from its call to its first await (the equity fetch)
handleFill(fill) == Handler(fill, "equity", 1, FALSE, "none", "none", "none", "")

Finished(h, exec, outcome, error) ==
  Handler(h.fill, "done", IF h.pc \in {"order", "orderWait"} THEN h.attempt ELSE 0,
          FALSE, "none", exec, outcome, error)

\* mutant of handleFillCatch: the error leaves handleFill as a rejection
handleFillUncaught(h, message) ==
  Finished(h, "none", "rejected", message)

\* the outer catch of handleFill: the error is logged (and notified, which
\* cannot throw) and handleFill returns
handleFillCatch(h, message) ==
  Finished(h, "none", "error", message)

\* mutant of markTrade: a reduce is tracked like a close
markTradeReduceCloses(trades, action, coin) ==
  IF action = "open" THEN trades \cup {coin} ELSE trades \ {coin}

\* the ledger update of handleFill after a successful executeTrade
markTrade(trades, action, coin) ==
  IF action = "open" THEN trades \cup {coin}
  ELSE IF action = "close" THEN trades \ {coin}
  ELSE trades

\* mutant of trackActiveTrade: the ledger is updated whatever the result
trackActiveTradeAlways(trades, success, action, coin) ==
  markTrade(trades, action, coin)

\* handleFill after executeTrade returned: the ledger changes only for a
\* successful TradeResult
trackActiveTrade(trades, success, action, coin) ==
  IF success THEN markTrade(trades, action, coin) ELSE trades

\* mutant of gated: the gate holds back every action
gatedAny(action) == TRUE

\* the actions the gate of calculateTradeParams applies to: action === 'open'
gated(action) == action = "open"

\* mutant of maxConcurrentReached: the gate closes one trade too late
maxConcurrentExceeded(trades, action) ==
  action = "open" /\ Cardinality(trades) > MAX_CONCURRENT_TRADES

\* the gate of calculateTradeParams
maxConcurrentReached(trades, action) ==
  gated(action) /\ Cardinality(trades) >= MAX_CONCURRENT_TRADES

\* the size check of calculateTradeParams: part_002 returns null for a size
\* that is <= 0, NaN or not finite; copyTrader.ts has no such check
invalidSize(implementation, size) ==
  implementation = "retry" /\ size # "pos"

\* what the sizing and validateTradeParams can give for one fill:
\*   size   the class of calculatedSize: "pos", "nonpos" or "nan"
\*   params whether placeOrder's parameter check accepts the size string
\*   valid  the verdict of validateTradeParams
\* A NaN equity gives a NaN size, and a NaN notional fails the minimum
\* notional check; a size <= 0 passes validateTradeParams only as "0" with
\* MIN_NOTIONAL = 0, and placeOrder rejects "0".
CalcOutcomes(nanEq) ==
  IF nanEq
  THEN {[size |-> "nan", params |-> "good", valid |-> FALSE]}
  ELSE {[size |-> "pos", params |-> "good", valid |-> TRUE],
        [size |-> "pos", params |-> "bad", valid |-> TRUE],
        [size |-> "pos", params |-> "good", valid |-> FALSE],
        [size |-> "nonpos", params |-> "bad", valid |-> TRUE],
        [size |-> "nonpos", params |-> "bad", valid |-> FALSE]}

\* mutant of executeTradeCatch: the error leaves executeTrade
executeTradeRethrow(error) ==
  [exec |-> "raised", outcome |-> "error", error |-> error.message]

\* the catch of executeTrade: a failed TradeResult with the error's message
executeTradeCatch(error) ==
  [exec |-> "returned", outcome |-> "failed", error |-> error.message]

\* the retry decision of executeTrade for a failed placeOrder attempt
orderRetry(implementation, error, attempt) ==
  IF implementation = "retry" THEN retryWithBackoff(error, attempt)
  ELSE legacyRetryLoop(error, attempt)

SetHandler(i, h) == handlers' = [handlers EXCEPT ![i] = h]

engineFrame == <<sideVars, impl, DRY_RUN, run, sockets, wsClient, isConnected, timers,
                 unsubscribeFn, stopped, reconnects, exhausted, fatal, fillsLeft>>

\* the 'message' handler for a userFills message: onFill for each fill of
\* message.data in order; each handleFill runs to its first await
Message(i, batch) ==
  /\ run = "running"
  /\ sockets[i] = "open"
  /\ Len(batch) <= fillsLeft
  /\ handlers' = handlers \o [k \in 1..Len(batch) |-> handleFill(batch[k])]
  /\ fillsLeft' = fillsLeft - Len(batch)
  /\ UNCHANGED <<sideVars, impl, DRY_RUN, run, sockets, wsClient, isConnected, timers,
                 unsubscribeFn, stopped, reconnects, exhausted, fatal, activeTrades>>

\* the fills of one userFills message
Batches == {<<f>> : f \in Fills} \cup {<<f, g>> : f \in Fills, g \in Fills}

\* a frame received on the socket: json says whether JSON.parse accepts it,
\* hasData whether message.data is truthy, isArray whether it is an array,
\* items what it holds
Frame(json, channel, hasData, isArray, items) ==
  [json |-> json, channel |-> channel, hasData |-> hasData, isArray |-> isArray,
   items |-> items]

\* the frames the exchange sends: fills, and the frames that carry none
Frames ==
  {Frame(TRUE, "userFills", TRUE, TRUE, batch) : batch \in Batches}
  \cup {Frame(FALSE, "", FALSE, FALSE, <<>>),
        Frame(TRUE, "userFills", FALSE, FALSE, <<>>)}
  \cup {Frame(TRUE, "subscriptionResponse", TRUE, TRUE, <<f>>) : f \in Fills}
  \cup {Frame(TRUE, "userFills", TRUE, FALSE, <<f>>) : f \in Fills}

\* an onFill call that ended in a synchronous exception
thrownFill(fill) == Handler(fill, "done", 0, FALSE, "none", "none", "thrown", "")

\* mutant of dispatchFills: an exception of onFill ends the forEach
dispatchFillsUntilThrow(items, throwing) ==
  LET first == IF throwing = {} THEN Len(items) + 1
               ELSE CHOOSE k \in throwing : \A j \in throwing : k <= j
  IN [k \in 1..(IF first <= Len(items) THEN first ELSE Len(items)) |->
        IF k \in throwing THEN thrownFill(items[k]) ELSE handleFill(items[k])]

\* message.data.forEach with the try/catch around onFill: every fill is
\* passed to onFill; throwing holds the positions at which the consumer throws
dispatchFills(items, throwing) ==
  [k \in 1..Len(items) |->
     IF k \in throwing THEN thrownFill(items[k]) ELSE handleFill(items[k])]

\* mutant of onMessage: data that is not an array is dispatched as one fill
onMessageAnyData(frame, throwing) ==
  IF frame.json /\ frame.channel = "userFills" /\ frame.hasData
  THEN dispatchFills(frame.items, throwing)
  ELSE <<>>

\* the 'message' handler: the onFill calls a frame causes
onMessage(frame, throwing) ==
  IF ~frame.json THEN <<>>
  ELSE IF frame.channel = "userFills" /\ frame.hasData /\ frame.isArray
  THEN dispatchFills(frame.items, throwing)
  ELSE <<>>

\* what a frame takes from the budget of fills the exchange sends
FrameCost(frame) == IF Len(frame.items) = 0 THEN 1 ELSE Len(frame.items)

\* the 'message' handler for any frame and a consumer that may throw
Receive(i, frame, throwing) ==
  /\ run = "running"
  /\ sockets[i] = "open"
  /\ FrameCost(frame) <= fillsLeft
  /\ handlers' = handlers \o onMessage(frame, throwing)
  /\ fillsLeft' = fillsLeft - FrameCost(frame)
  /\ UNCHANGED <<sideVars, impl, DRY_RUN, run, sockets, wsClient, isConnected, timers,
                 unsubscribeFn, stopped, reconnects, exhausted, fatal, activeTrades>>

\* the Promise.all of the two getAccountEquity calls settles
EquityResolve(i, out) ==
  LET h == handlers[i] IN
  /\ run = "running"
  /\ h.pc = "equity"
  /\ IF impl = "retry"
     THEN IF out.ok
          THEN IF out.nan
               THEN SetHandler(i, handleFillCatch(h, "Invalid equity values"))
               ELSE SetHandler(i, [h EXCEPT !.pc = "positions", !.attempt = 1])
          ELSE IF retryWithBackoff(out.error, h.attempt) = "wait"
               THEN SetHandler(i, [h EXCEPT !.pc = "equityWait"])
               ELSE SetHandler(i, Finished(h, "none", "fetchError", out.error.message))
     ELSE IF out.ok
          THEN SetHandler(i, [h EXCEPT !.pc = "positions", !.attempt = 1,
                                       !.nanEq = out.nan])
          ELSE SetHandler(i, handleFillCatch(h, out.error.message))
  /\ UNCHANGED engineFrame
  /\ UNCHANGED activeTrades

\* the backoff timer of a retry loop fires: the next attempt is made
BackoffElapsed(i) ==
  LET h == handlers[i] IN
  /\ run = "running"
  /\ h.pc \in {"equityWait", "positionsWait", "orderWait"}
  /\ SetHandler(i, [h EXCEPT !.pc = IF h.pc = "equityWait" THEN "equity"
                                    ELSE IF h.pc = "positionsWait" THEN "positions"
                                    ELSE "order",
                             !.attempt = h.attempt + 1])
  /\ UNCHANGED engineFrame
  /\ UNCHANGED activeTrades

\* mutant of calculateAndExecute: the verdict of validateTradeParams is ignored
calculateAndExecuteUnvalidated(h, calc) ==
  IF maxConcurrentReached(activeTrades, getTradeAction(h.fill))
     \/ invalidSize(impl, calc.size)
  THEN Finished(h, "none", "skipped", "")
  ELSE [h EXCEPT !.pc = "order", !.attempt = 1, !.params = calc.params]

\* calculateTradeParams and the start of executeTrade, which run without a
\* suspension that another callback could use to change activeTrades: null
\* from the gate or the size check, a failed TradeResult from
\* validateTradeParams, or the first placeOrder call
calculateAndExecute(h, calc) ==
  IF maxConcurrentReached(activeTrades, getTradeAction(h.fill))
     \/ invalidSize(impl, calc.size)
  THEN Finished(h, "none", "skipped", "")
  ELSE IF ~calc.valid
  THEN Finished(h, "returned", "failed", "validation")
  ELSE [h EXCEPT !.pc = "order", !.attempt = 1, !.params = calc.params]

\* the Promise.all of the two getPositions calls settles
PositionsResolve(i, out, calc) ==
  LET h == handlers[i] IN
  /\ run = "running"
  /\ h.pc = "positions"
  /\ IF out.ok
     THEN /\ SetHandler(i, calculateAndExecute(h, calc))
          /\ activeTrades' =
               IF calculateAndExecute(h, calc).exec = "returned"
               THEN trackActiveTrade(activeTrades, FALSE, getTradeAction(h.fill),
                                     h.fill.coin)
               ELSE activeTrades
     ELSE /\ IF impl = "retry"
             THEN IF retryWithBackoff(out.error, h.attempt) = "wait"
                  THEN SetHandler(i, [h EXCEPT !.pc = "positionsWait"])
                  ELSE SetHandler(i, Finished(h, "none", "fetchError",
                                              out.error.message))
             ELSE SetHandler(i, handleFillCatch(h, out.error.message))
          /\ UNCHANGED activeTrades
  /\ UNCHANGED engineFrame

\* a placeOrder call settles: on success executeTrade returns and handleFill
\* updates the ledger; on failure the retry loop waits or executeTrade ends
OrderResolve(i, out) ==
  LET h == handlers[i]
      end == executeTradeCatch(out.error)
  IN
  /\ run = "running"
  /\ h.pc = "order"
  /\ IF out.ok
     THEN /\ SetHandler(i, Finished(h, "returned", "copied", ""))
          /\ activeTrades' = trackActiveTrade(activeTrades, TRUE,
                                              getTradeAction(h.fill), h.fill.coin)
     ELSE IF orderRetry(impl, out.error, h.attempt) = "wait"
     THEN /\ SetHandler(i, [h EXCEPT !.pc = "orderWait"])
          /\ UNCHANGED activeTrades
     ELSE /\ SetHandler(i, Finished(h, end.exec,
                                      IF end.exec = "raised" THEN "error"
                                      ELSE end.outcome, end.error))
          /\ activeTrades' =
               IF end.exec = "returned"
               THEN trackActiveTrade(activeTrades, FALSE, getTradeAction(h.fill),
                                     h.fill.coin)
               ELSE activeTrades
  /\ UNCHANGED engineFrame

\* ------------------------------------------------------------ specifications
Next ==
  \/ Start
  \/ \E i \in DOMAIN sockets : SocketOpen(i)
  \/ \E i \in DOMAIN sockets, batch \in Batches : Message(i, batch)
  \/ \E i \in DOMAIN handlers, out \in EquityOutcomes : EquityResolve(i, out)
  \/ \E i \in DOMAIN handlers : BackoffElapsed(i)
  \/ \E i \in DOMAIN handlers, out \in PositionsOutcomes :
       \E calc \in CalcOutcomes(handlers[i].nanEq) : PositionsResolve(i, out, calc)
  \/ \E i \in DOMAIN handlers :
       \E out \in PlaceOrderOutcomes(handlers[i].params, DRY_RUN) : OrderResolve(i, out)
  \/ Stop
  \/ Exit

Spec == Init /\ [][Next]_vars

\* one fill at a time, on any ledger the engine can have built up
Ledgers == {t \in SUBSET Coins : Cardinality(t) <= MAX_CONCURRENT_TRADES}

InitFill ==
  /\ impl \in Impls
  /\ DRY_RUN \in BOOLEAN
  /\ run = "init"
  /\ sockets = <<>>
  /\ wsClient = 0
  /\ isConnected = FALSE
  /\ timers = <<>>
  /\ unsubscribeFn = "none"
  /\ stopped = FALSE
  /\ reconnects = 0
  /\ exhausted = FALSE
  /\ fatal = <<>>
  /\ activeTrades \in Ledgers
  /\ handlers = <<>>
  /\ fillsLeft = MaxFillsAlone
  /\ SideInit

\* the engine while no shutdown signal arrives
NextFill ==
  \/ Start
  \/ \E i \in DOMAIN sockets : SocketOpen(i)
  \/ \E i \in DOMAIN sockets, batch \in Batches : Message(i, batch)
  \/ \E i \in DOMAIN handlers, out \in EquityOutcomes : EquityResolve(i, out)
  \/ \E i \in DOMAIN handlers : BackoffElapsed(i)
  \/ \E i \in DOMAIN handlers, out \in PositionsOutcomes :
       \E calc \in CalcOutcomes(handlers[i].nanEq) : PositionsResolve(i, out, calc)
  \/ \E i \in DOMAIN handlers :
       \E out \in PlaceOrderOutcomes(handlers[i].params, DRY_RUN) : OrderResolve(i, out)

SpecFill == InitFill /\ [][NextFill]_vars

\* a pending await of some handleFill settles: a gateway call returns or
\* fails, or a backoff timer fires
HandlerStep ==
  \/ \E i \in DOMAIN handlers, out \in EquityOutcomes : EquityResolve(i, out)
  \/ \E i \in DOMAIN handlers : BackoffElapsed(i)
  \/ \E i \in DOMAIN handlers, out \in PositionsOutcomes :
       \E calc \in CalcOutcomes(handlers[i].nanEq) : PositionsResolve(i, out, calc)
  \/ \E i \in DOMAIN handlers :
       \E out \in PlaceOrderOutcomes(handlers[i].params, DRY_RUN) : OrderResolve(i, out)

\* the engine when every gateway call returns or fails and every timer fires
SpecFillFair == SpecFill /\ WF_vars(HandlerStep)

InitStream ==
  /\ impl \in Impls
  /\ DRY_RUN \in BOOLEAN
  /\ run = "init"
  /\ sockets = <<>>
  /\ wsClient = 0
  /\ isConnected = FALSE
  /\ timers = <<>>
  /\ unsubscribeFn = "none"
  /\ stopped = FALSE
  /\ reconnects = 0
  /\ exhausted = FALSE
  /\ fatal = <<>>
  /\ activeTrades = {}
  /\ handlers = <<>>
  /\ fillsLeft = MaxFillsAlone
  /\ SideInit

NextStream ==
  \/ Start
  \/ \E i \in DOMAIN sockets : SocketOpen(i)
  \/ \E i \in DOMAIN sockets : SocketError(i)
  \/ \E i \in DOMAIN sockets : SocketClose(i)
  \/ \E k \in DOMAIN timers : ReconnectOk(k)
  \/ \E k \in DOMAIN timers : ReconnectThrow(k)
  \/ \E i \in DOMAIN sockets, batch \in Batches : Message(i, batch)
  \/ Stop
  \/ Exit

SpecStream == InitStream /\ [][NextStream]_vars

\* ------------------------------------------------------------ order wire
\* strings are sequences of one-character strings
DigitChars == <<"0", "1", "2", "3", "4", "5", "6", "7", "8", "9">>

RECURSIVE digits(_)
\* the decimal digits of a natural number
digits(n) ==
  IF n < 10 THEN <<DigitChars[n + 1]>>
  ELSE Append(digits(n \div 10), DigitChars[(n % 10) + 1])

RECURSIVE pad(_, _)
\* the digits of n left-padded with zeros to width w
pad(n, w) == IF w = 0 THEN <<>> ELSE Append(pad(n \div 10, w - 1), DigitChars[(n % 10) + 1])

\* the decimals calculateTradeParams formats the size with
toFixedDigits == 8

\* a calculatedSize: whole + frac / 10^toFixedDigits
Size(whole, frac) == [whole |-> whole, frac |-> frac]

\* Number.prototype.toFixed(8) of a size
toFixed(size) == digits(size.whole) \o <<".">> \o pad(size.frac, toFixedDigits)

\* the suffix of value from position i is an optional '.' and then zeros only
\* up to the end: what the regular expression /\.?0+$/ matches at i
matchesAt(value, i) ==
  LET from == IF value[i] = "." THEN i + 1 ELSE i
  IN /\ from <= Len(value)
     /\ \A j \in from..Len(value) : value[j] = "0"

\* mutant of removeTrailingZeros: only the zeros are removed (/0+$/)
removeTrailingZerosKeepDot(value) ==
  LET hits == {i \in 1..Len(value) : \A j \in i..Len(value) : value[j] = "0"}
  IN IF hits = {} THEN value
     ELSE SubSeq(value, 1, (CHOOSE i \in hits : \A j \in hits : i <= j) - 1)

\* value.replace(/\.?0+$/, ''): the leftmost match is removed
removeTrailingZeros(value) ==
  LET hits == {i \in 1..Len(value) : matchesAt(value, i)}
  IN IF hits = {} THEN value
     ELSE SubSeq(value, 1, (CHOOSE i \in hits : \A j \in hits : i <= j) - 1)

\* placeOrder: sz: params.sz.replace(/\.?0+$/, '')
orderParamsSz(sz) ==
  LET hits == {i \in 1..Len(sz) : matchesAt(sz, i)}
  IN IF hits = {} THEN sz
     ELSE SubSeq(sz, 1, (CHOOSE i \in hits : \A j \in hits : i <= j) - 1)

\* the value of a decimal digit character
digitValue(ch) == CHOOSE n \in 0..9 : DigitChars[n + 1] = ch

RECURSIVE numberOf(_)
\* the natural number a string of digits denotes (0 for the empty string)
numberOf(ds) ==
  IF ds = <<>> THEN 0
  ELSE 10 * numberOf(SubSeq(ds, 1, Len(ds) - 1)) + digitValue(ds[Len(ds)])

\* parseFloat of a string of digits with at most one '.' and at most
\* toFixedDigits decimals: <<the Size it denotes>>, or <<>> for NaN (no digit)
parseFloat(sz) ==
  LET dots == {i \in 1..Len(sz) : sz[i] = "."}
      dot == IF dots = {} THEN Len(sz) + 1 ELSE CHOOSE i \in dots : TRUE
      whole == SubSeq(sz, 1, dot - 1)
      frac == SubSeq(sz, dot + 1, Len(sz))
  IN IF whole = <<>> /\ frac = <<>> THEN <<>>
     ELSE <<Size(numberOf(whole),
                 numberOf(frac \o [j \in 1..(toFixedDigits - Len(frac)) |-> "0"]))>>

\* parseFloat(sz) <= 0 for a string of digits with at most one '.'; the
\* empty string parses to NaN, which is not <= 0
parsesNonPositive(sz) ==
  /\ sz # <<>>
  /\ \A j \in 1..Len(sz) : sz[j] \in {"0", "."}
  /\ \E j \in 1..Len(sz) : sz[j] = "0"

\* placeOrder's parameter check on the size: !params.sz || parseFloat <= 0
rejectsSz(sz) == sz = <<>> \/ parsesNonPositive(sz)

\* the sizes calculatePositionSize gives: positive, with any mix of whole and
\* fractional digits that end or do not end in zeros
CalculatedSizes ==
  {Size(w, f) : w \in {0, 1, 7, 10, 12, 100, 105, 120, 1000},
                f \in {0, 1, 10, 12345678, 50000000, 12300000, 5000, 90000000}}
  \ {Size(0, 0)}

\* calculateTradeParams: sizeStr = removeTrailingZeros(calculatedSize.toFixed(8))
CalculateSize(size) ==
  /\ tradeSize = <<>>
  /\ tradeSize' = <<removeTrailingZeros(toFixed(size))>>
  /\ UNCHANGED <<impl, DRY_RUN, run, sockets, wsClient, isConnected, timers,
                 unsubscribeFn, stopped, reconnects, exhausted, fatal,
                 activeTrades, handlers, fillsLeft, orderSz, lastResult,
                 intervalId, inFlight, cycles,
                 args, result>>

\* placeOrder up to exchangeClient.order(orderParams, ...)
PlaceOrderCall ==
  /\ tradeSize # <<>>
  /\ orderSz = <<>>
  /\ ~DRY_RUN
  /\ ~rejectsSz(tradeSize[1])
  /\ orderSz' = <<orderParamsSz(tradeSize[1])>>
  /\ UNCHANGED <<impl, DRY_RUN, run, sockets, wsClient, isConnected, timers,
                 unsubscribeFn, stopped, reconnects, exhausted, fatal,
                 activeTrades, handlers, fillsLeft, tradeSize, lastResult,
                 intervalId, inFlight, cycles,
                 args, result>>

InitWire ==
  /\ impl \in Impls
  /\ DRY_RUN = FALSE
  /\ run = "init"
  /\ sockets = <<>>
  /\ wsClient = 0
  /\ isConnected = FALSE
  /\ timers = <<>>
  /\ unsubscribeFn = "none"
  /\ stopped = FALSE
  /\ reconnects = 0
  /\ exhausted = FALSE
  /\ fatal = <<>>
  /\ activeTrades = {}
  /\ handlers = <<>>
  /\ fillsLeft = 0
  /\ SideInit

NextWire ==
  \/ \E size \in CalculatedSizes : CalculateSize(size)
  \/ PlaceOrderCall

SpecWire == InitWire /\ [][NextWire]_vars

\* ------------------------------------------------------------ health check
\* position sizes (szi) in thousandths of a coin; the drift limit 0.01 is 10
driftLimit == 10

\* a short position among them
PositionSizes == {0 - 50, 1, 50, 60, 61, 100}

\* the positions of an account: the size held for each coin held
Positions == UNION {[held -> PositionSizes] : held \in SUBSET Coins}

\* mutant of drift: a difference equal to the limit is flagged too
driftAtLimit(ourPositions, targetPositions) ==
  LET ourSize(c) == IF c \in DOMAIN ourPositions THEN ourPositions[c] ELSE 0
      moved == {c \in DOMAIN targetPositions :
                  Abs(targetPositions[c] - ourSize(c)) >= driftLimit}
      extra == DOMAIN ourPositions \ DOMAIN targetPositions
  IN [c \in moved \cup extra |->
        IF c \in extra
        THEN [ourSize |-> ourPositions[c], targetSize |-> 0,
              difference |-> ourPositions[c]]
        ELSE [ourSize |-> ourSize(c), targetSize |-> targetPositions[c],
              difference |-> Abs(targetPositions[c] - ourSize(c))]]

\* the drift map of checkHealth: the loop over the target's positions, then
\* the loop over ours
drift(ourPositions, targetPositions) ==
  LET ourSize(c) == IF c \in DOMAIN ourPositions THEN ourPositions[c] ELSE 0
      moved == {c \in DOMAIN targetPositions :
                  Abs(targetPositions[c] - ourSize(c)) > driftLimit}
      extra == DOMAIN ourPositions \ DOMAIN targetPositions
  IN [c \in moved \cup extra |->
        IF c \in extra
        THEN [ourSize |-> ourPositions[c], targetSize |-> 0,
              difference |-> ourPositions[c]]
        ELSE [ourSize |-> ourSize(c), targetSize |-> targetPositions[c],
              difference |-> Abs(targetPositions[c] - ourSize(c))]]

\* a call of checkHealth up to its await: one more cycle is in flight
startCycle ==
  /\ cycles' = cycles + 1
  /\ inFlight' = inFlight \cup {cycles + 1}

\* HealthChecker.start, called by main once copyTrader.start() has returned
\* and before the signal handlers are registered: one cycle at once, then the
\* interval timer
HealthStart ==
  /\ run = "running"
  /\ ~stopped
  /\ cycles = 0
  /\ startCycle
  /\ intervalId' = "timer"
  /\ UNCHANGED <<impl, DRY_RUN, run, sockets, wsClient, isConnected, timers,
                 unsubscribeFn, stopped, reconnects, exhausted, fatal,
                 activeTrades, handlers, fillsLeft, tradeSize, orderSz,
                 lastResult,
                 args, result>>

\* the interval timer fires: the callback calls checkHealth
HealthTick ==
  /\ run = "running"
  /\ intervalId = "timer"
  /\ cycles < MaxCycles
  /\ startCycle
  /\ UNCHANGED <<impl, DRY_RUN, run, sockets, wsClient, isConnected, timers,
                 unsubscribeFn, stopped, reconnects, exhausted, fatal,
                 activeTrades, handlers, fillsLeft, tradeSize, orderSz,
                 lastResult, intervalId,
                 args, result>>

\* the rest of a checkHealth cycle whose four fetches succeeded: the result
\* is kept in lastResult
CheckHealth(c, ourPositions, targetPositions) ==
  /\ run = "running"
  /\ c \in inFlight
  /\ inFlight' = inFlight \ {c}
  /\ lastResult' = <<[ourPositions |-> ourPositions,
                      targetPositions |-> targetPositions,
                      drift |-> drift(ourPositions, targetPositions)]>>
  /\ UNCHANGED <<impl, DRY_RUN, run, sockets, wsClient, isConnected, timers,
                 unsubscribeFn, stopped, reconnects, exhausted, fatal,
                 activeTrades, handlers, fillsLeft, tradeSize, orderSz,
                 intervalId, cycles,
                 args, result>>

\* the rest of a checkHealth cycle one of whose fetches failed: the catch
\* rethrows a NetworkError, which nothing awaits: it reaches the
\* 'unhandledRejection' handler of main
CheckHealthThrow(c) ==
  /\ run = "running"
  /\ c \in inFlight
  /\ inFlight' = inFlight \ {c}
  /\ fatal' = Append(fatal, "NetworkError")
  /\ UNCHANGED <<impl, DRY_RUN, run, sockets, wsClient, isConnected, timers,
                 unsubscribeFn, stopped, reconnects, exhausted,
                 activeTrades, handlers, fillsLeft, tradeSize, orderSz,
                 lastResult, intervalId, cycles,
                 args, result>>

InitHealth ==
  /\ impl = "retry"
  /\ DRY_RUN = FALSE
  /\ run = "init"
  /\ sockets = <<>>
  /\ wsClient = 0
  /\ isConnected = FALSE
  /\ timers = <<>>
  /\ unsubscribeFn = "none"
  /\ stopped = FALSE
  /\ reconnects = 0
  /\ exhausted = FALSE
  /\ fatal = <<>>
  /\ activeTrades = {}
  /\ handlers = <<>>
  /\ fillsLeft = 0
  /\ SideInit

NextHealth ==
  \/ Start
  \/ HealthStart
  \/ \E c \in inFlight, ourPositions \in Positions, targetPositions \in Positions :
       CheckHealth(c, ourPositions, targetPositions)

SpecHealth == InitHealth /\ [][NextHealth]_vars

\* the positions the fetches of the cycle specification return
CyclePositions == {p \in Positions : \A c \in DOMAIN p : c = "BTC" /\ p[c] = 100}

\* the health checker from start to shutdown, with either CopyTrader
InitCycle ==
  /\ impl \in Impls
  /\ DRY_RUN = FALSE
  /\ run = "init"
  /\ sockets = <<>>
  /\ wsClient = 0
  /\ isConnected = FALSE
  /\ timers = <<>>
  /\ unsubscribeFn = "none"
  /\ stopped = FALSE
  /\ reconnects = 0
  /\ exhausted = FALSE
  /\ fatal = <<>>
  /\ activeTrades = {}
  /\ handlers = <<>>
  /\ fillsLeft = 0
  /\ SideInit

NextCycle ==
  \/ Start
  \/ HealthStart
  \/ HealthTick
  \/ \E c \in inFlight, ourPositions \in CyclePositions,
          targetPositions \in CyclePositions :
       CheckHealth(c, ourPositions, targetPositions)
  \/ \E c \in inFlight : CheckHealthThrow(c)
  \/ Stop
  \/ Exit

SpecCycle == InitCycle /\ [][NextCycle]_vars

\* ------------------------------------------------------------ risk functions
\* the state before a call of a risk function with arguments from inputs
InitRisk(inputs) ==
  /\ impl = "retry"
  /\ DRY_RUN = FALSE
  /\ run = "init"
  /\ sockets = <<>>
  /\ wsClient = 0
  /\ isConnected = FALSE
  /\ timers = <<>>
  /\ unsubscribeFn = "none"
  /\ stopped = FALSE
  /\ reconnects = 0
  /\ exhausted = FALSE
  /\ fatal = <<>>
  /\ activeTrades = {}
  /\ handlers = <<>>
  /\ fillsLeft = 0
  /\ tradeSize = <<>> /\ orderSz = <<>> /\ lastResult = <<>>
  /\ intervalId = "none" /\ inFlight = {} /\ cycles = 0
  /\ args \in {<<a>> : a \in inputs}
  /\ result = <<>>

\* the call returns value
Return(value) ==
  /\ args # <<>>
  /\ result = <<>>
  /\ result' = <<value>>
  /\ UNCHANGED <<impl, DRY_RUN, run, sockets, wsClient, isConnected, timers,
                 unsubscribeFn, stopped, reconnects, exhausted, fatal,
                 activeTrades, handlers, fillsLeft, tradeSize, orderSz,
                 lastResult, intervalId, inFlight, cycles, args>>

\* the dir values of FillEvent and two values the type does not list
Dirs == {"Open Long", "Open Short", "Close Long", "Close Short",
         "Long > Short", "Buy"}

\* fills of every direction, with start positions on both sides of the size
ActionFills ==
  {Fill("BTC", dir, sz, startPosition, side) :
     dir \in Dirs, sz \in 1..MaxSz, startPosition \in (0 - MaxSz - 1)..(MaxSz + 1),
     side \in {"A", "B"}}

GetTradeAction == Return(getTradeAction(args[1]))

SpecAction == InitRisk(ActionFills) /\ [][GetTradeAction]_vars

\* the szi of the target's position for the fill's coin as fetched after the
\* fill: <<>> when the target holds none
TargetPositions == {<<>>, <<0 - MaxSz>>, <<0>>, <<1>>, <<MaxSz>>}

SideInputs ==
  {[fill |-> fill, targetPosition |-> targetPosition] :
     fill \in ActionFills, targetPosition \in TargetPositions}

\* mutant of sideAndReduceOnly: a reduce or close trades in the direction of
\* the position
sideAndReduceOnlySameSide(fill, action, targetPosition) ==
  IF action = "open"
  THEN [side |-> IF fill.dir = "Open Long" THEN "B" ELSE "A", reduceOnly |-> FALSE]
  ELSE [side |-> IF targetPosition # <<>>
                 THEN IF targetPosition[1] > 0 THEN "B" ELSE "A"
                 ELSE fill.side,
        reduceOnly |-> TRUE]

\* calculateTradeParams: the side and the reduceOnly flag of the mirrored order
sideAndReduceOnly(fill, action, targetPosition) ==
  IF action = "open"
  THEN [side |-> IF fill.dir = "Open Long" THEN "B" ELSE "A", reduceOnly |-> FALSE]
  ELSE [side |-> IF targetPosition # <<>>
                 THEN IF targetPosition[1] > 0 THEN "A" ELSE "B"
                 ELSE fill.side,
        reduceOnly |-> TRUE]

\* handleFill classifies the fill and calculateTradeParams maps it
CalculateSide ==
  Return(sideAndReduceOnly(args[1].fill, getTradeAction(args[1].fill),
                           args[1].targetPosition))

SpecSide == InitRisk(SideInputs) /\ [][CalculateSide]_vars

\* config.MAX_LEVERAGE (default)
MAX_LEVERAGE == 20
\* config.MAX_POSITION_SIZE_PERCENT (default)
MAX_POSITION_SIZE_PERCENT == 50
\* config.MIN_NOTIONAL (default)
MIN_NOTIONAL == 10

\* String.prototype.toUpperCase on the coin names of the model
toUpperCase(coin) ==
  IF coin \in {"btc", "Btc"} THEN "BTC"
  ELSE IF coin \in {"eth", "Eth"} THEN "ETH"
  ELSE coin

\* config.BLOCKED_ASSETS for BLOCKED_ASSETS=btc: the entries are upper-cased
BLOCKED_ASSETS == {toUpperCase(a) : a \in {"btc"}}

isAssetBlocked(coin) == toUpperCase(coin) \in BLOCKED_ASSETS

\* size and price are whole numbers here
meetsMinimumNotional(size, price) == size * price >= MIN_NOTIONAL

\* the trades given to validateTradeParams: every check passes for some and
\* fails for some, alone and together with the others
ValidateInputs ==
  {[coin |-> coin, size |-> size, price |-> price, leverage |-> leverage,
    ourEquity |-> ourEquity] :
     coin \in {"BTC", "btc", "Btc", "ETH"}, size \in {1, 5, 10, 20},
     price \in {1, 2}, leverage \in {1, MAX_LEVERAGE, MAX_LEVERAGE + 1},
     ourEquity \in {10, 20, 40, 1000}}

\* mutant of validateTradeParams: the notional is checked before the block list
validateTradeParamsNotionalFirst(params, price, ourEquity) ==
  IF ~meetsMinimumNotional(params.size, price)
  THEN [valid |-> FALSE, reason |-> "notional"]
  ELSE IF isAssetBlocked(params.coin)
  THEN [valid |-> FALSE, reason |-> "blocked"]
  ELSE IF params.leverage > MAX_LEVERAGE
  THEN [valid |-> FALSE, reason |-> "leverage"]
  ELSE IF params.size * price * 100 > ourEquity * MAX_POSITION_SIZE_PERCENT
  THEN [valid |-> FALSE, reason |-> "cap"]
  ELSE [valid |-> TRUE, reason |-> ""]

\* validateTradeParams; reason names the message returned.  The last check
\* is positionValue > ourEquity * MAX_POSITION_SIZE_PERCENT / 100 with both
\* sides multiplied by 100
validateTradeParams(params, price, ourEquity) ==
  IF isAssetBlocked(params.coin)
  THEN [valid |-> FALSE, reason |-> "blocked"]
  ELSE IF ~meetsMinimumNotional(params.size, price)
  THEN [valid |-> FALSE, reason |-> "notional"]
  ELSE IF params.leverage > MAX_LEVERAGE
  THEN [valid |-> FALSE, reason |-> "leverage"]
  ELSE IF params.size * price * 100 > ourEquity * MAX_POSITION_SIZE_PERCENT
  THEN [valid |-> FALSE, reason |-> "cap"]
  ELSE [valid |-> TRUE, reason |-> ""]

ValidateTradeParams ==
  Return(validateTradeParams([coin |-> args[1].coin, size |-> args[1].size,
                              leverage |-> args[1].leverage],
                             args[1].price, args[1].ourEquity))

SpecValidate == InitRisk(ValidateInputs) /\ [][ValidateTradeParams]_vars

RECURSIVE GCD(_, _)
GCD(a, b) == IF b = 0 THEN a ELSE GCD(b, a % b)

\* numbers are exact fractions in lowest terms with a positive denominator:
\* the rounding of the floating-point operations is left out
Frac(n, d) ==
  LET g == GCD(Abs(n), d) IN [num |-> n \div g, den |-> d \div g]

\* x * y
mul(x, y) == Frac(x.num * y.num, x.den * y.den)

\* x <= y
leq(x, y) == x.num * y.den <= y.num * x.den

\* mutant of MathMin: the larger of the two
MathMax(x, y) == IF leq(x, y) THEN y ELSE x

\* Math.min(x, y)
MathMin(x, y) == IF leq(x, y) THEN x ELSE y

\* mutant of capPositionSize: the calculated size is returned as it is
capPositionSizeNone(calculatedSize, ourEquity) == calculatedSize

capPositionSize(calculatedSize, ourEquity) ==
  MathMin(calculatedSize, Frac(ourEquity * MAX_POSITION_SIZE_PERCENT, 100))

\* mutant of calculatePositionSize: the zero-equity fallback forgets the
\* multiplier
calculatePositionSizeRaw(targetSize, ourEquity, targetEquity, SIZE_MULTIPLIER) ==
  IF targetEquity = 0
  THEN Frac(targetSize, 1)
  ELSE capPositionSize(mul(mul(Frac(ourEquity, targetEquity), Frac(targetSize, 1)),
                           SIZE_MULTIPLIER),
                       ourEquity)

\* calculatePositionSize, with config.SIZE_MULTIPLIER as a parameter
calculatePositionSize(targetSize, ourEquity, targetEquity, SIZE_MULTIPLIER) ==
  IF targetEquity = 0
  THEN mul(Frac(targetSize, 1), SIZE_MULTIPLIER)
  ELSE capPositionSize(mul(mul(Frac(ourEquity, targetEquity), Frac(targetSize, 1)),
                           SIZE_MULTIPLIER),
                       ourEquity)

\* the calls of calculatePositionSize: fill sizes, equities (the target's may
\* be zero) and multipliers below, at and above one
SizeInputs ==
  {[targetSize |-> targetSize, ourEquity |-> ourEquity,
    targetEquity |-> targetEquity, SIZE_MULTIPLIER |-> multiplier] :
     targetSize \in {1, 10, 40, 1000}, ourEquity \in {100, 1000, 5000},
     targetEquity \in {0, 50, 100, 10000},
     multiplier \in {Frac(1, 2), Frac(1, 1), Frac(2, 1)}}

CalculatePositionSize ==
  Return(calculatePositionSize(args[1].targetSize, args[1].ourEquity,
                               args[1].targetEquity, args[1].SIZE_MULTIPLIER))

SpecSize == InitRisk(SizeInputs) /\ [][CalculatePositionSize]_vars

\* parseInt of a string of digits
parseInt(value) == numberOf(value)

\* mutant of capLeverage: the leverage is returned as it is
capLeverageNone(leverage) == leverage

\* Math.min(leverage, config.MAX_LEVERAGE)
capLeverage(leverage) == IF leverage <= MAX_LEVERAGE THEN leverage ELSE MAX_LEVERAGE

\* the target's position for the fill's coin as far as the leverage goes:
\* <<>> (no position), a position without leverage, or one whose
\* leverage.value is a string of digits
LeveragePositions ==
  {<<>>, <<[leverage |-> <<>>]>>}
  \cup {<<[leverage |-> <<[value |-> digits(v)]>>]>> : v \in 1..MaxTargetLeverage}

\* calculateTradeParams: the leverage of the trade
tradeLeverage(targetPosition) ==
  IF targetPosition # <<>> /\ targetPosition[1].leverage # <<>>
  THEN capLeverage(parseInt(targetPosition[1].leverage[1].value))
  ELSE 1

CalculateLeverage == Return(tradeLeverage(args[1].targetPosition))

SpecLeverage ==
  InitRisk({[targetPosition |-> p] : p \in LeveragePositions})
  /\ [][CalculateLeverage]_vars

\* the engine after a first fill whose handling failed: the handlers that
\* an 'Open Long' of BTC leaves behind when the gateway fails
FailedFill == Fill("BTC", "Open Long", 1, 0, "B")

FailedHandlers(implementation) ==
  {Handler(FailedFill, "done", maxRetries, FALSE, "none", "returned", "failed",
           "Failed to place order"),
   Finished(handleFill(FailedFill), "returned", "failed", "validation")}
  \cup
  IF implementation = "retry"
  THEN {Finished(handleFill(FailedFill), "none", "fetchError",
                 "Failed to fetch account equity"),
        Finished(handleFill(FailedFill), "none", "fetchError",
                 "Invalid user state response"),
        Finished(handleFill(FailedFill), "none", "error", "Invalid equity values")}
  ELSE {Finished(handleFill(FailedFill), "none", "error",
                 "Failed to fetch account equity"),
        Finished(handleFill(FailedFill), "none", "error",
                 "Invalid user state response")}

InitLater ==
  /\ impl \in Impls
  /\ DRY_RUN = FALSE
  /\ run = "running"
  /\ sockets = <<"open">>
  /\ wsClient = 1
  /\ isConnected = TRUE
  /\ timers = <<>>
  /\ unsubscribeFn = IF impl = "retry" THEN "closure" ELSE "promise"
  /\ stopped = FALSE
  /\ reconnects = 0
  /\ exhausted = FALSE
  /\ fatal = <<>>
  /\ activeTrades = {}
  /\ handlers \in {<<h>> : h \in FailedHandlers(impl)}
  /\ fillsLeft = MaxFillsAlone
  /\ SideInit

NextLater ==
  \/ \E i \in DOMAIN sockets, batch \in Batches : Message(i, batch)
  \/ \E i \in DOMAIN handlers, out \in EquityOutcomes : EquityResolve(i, out)
  \/ \E i \in DOMAIN handlers : BackoffElapsed(i)
  \/ \E i \in DOMAIN handlers, out \in PositionsOutcomes :
       \E calc \in CalcOutcomes(handlers[i].nanEq) : PositionsResolve(i, out, calc)
  \/ \E i \in DOMAIN handlers :
       \E out \in PlaceOrderOutcomes(handlers[i].params, DRY_RUN) : OrderResolve(i, out)

SpecLater == InitLater /\ [][NextLater]_vars

\* the 'message' handler alone, with any frame and any consumer
InitDispatch ==
  /\ impl \in Impls
  /\ DRY_RUN = FALSE
  /\ run = "init"
  /\ sockets = <<>>
  /\ wsClient = 0
  /\ isConnected = FALSE
  /\ timers = <<>>
  /\ unsubscribeFn = "none"
  /\ stopped = FALSE
  /\ reconnects = 0
  /\ exhausted = FALSE
  /\ fatal = <<>>
  /\ activeTrades = {}
  /\ handlers = <<>>
  /\ fillsLeft = MaxFills
  /\ SideInit

NextDispatch ==
  \/ Start
  \/ \E i \in DOMAIN sockets : SocketOpen(i)
  \/ \E i \in DOMAIN sockets, frame \in Frames :
       \E throwing \in SUBSET (1..Len(frame.items)) : Receive(i, frame, throwing)
  \/ Stop
  \/ Exit

SpecDispatch == InitDispatch /\ [][NextDispatch]_vars

\* ------------------------------------------------------------ placeOrder
\* the order ids the exchange hands out
Oids == {"1001", "1002"}

\* one branch of an order status: absent, or a record with an oid
Branches == {<<>>} \cup {<<[oid |-> o]>> : o \in Oids}

\* what exchangeClient.order does: it rejects, or it resolves to nothing, to
\* a result without a status, or to a result whose status has a resting
\* and/or a filled branch
OrderResponses ==
  {[rejects |-> TRUE, result |-> <<>>], [rejects |-> FALSE, result |-> <<>>],
   [rejects |-> FALSE, result |-> <<[status |-> <<>>]>>]}
  \cup {[rejects |-> FALSE,
         result |-> <<[status |-> <<[resting |-> r, filled |-> f]>>]>>] :
          r \in Branches, f \in Branches}

\* the params of placeOrder: coin, the size string and the leverage
OrderParams ==
  [coin : {"", "BTC"}, sz : {<<>>, <<"0">>, <<"1">>, <<"1", ".", "5">>},
   leverage : 1..MaxOrderLeverage]

\* a call of placeOrder with what the exchange will answer: whether
\* updateLeverage rejects, and the response of the order endpoint
PlaceOrderInputs ==
  [params : OrderParams, leverageFails : BOOLEAN, response : OrderResponses]

\* how a call of placeOrder ends: the exchange calls it made, in order, and
\* the id it returned or the error it threw
ReturnsId(calls, orderId) == [calls |-> calls, returned |-> <<orderId>>, thrown |-> <<>>]
Throws(calls, error) == [calls |-> calls, returned |-> <<>>, thrown |-> <<error>>]

\* mutant of setLeverage: a rejected updateLeverage ends the attempt
setLeverageStrict(params, leverageFails) ==
  IF params.leverage > 1
  THEN [calls |-> <<[call |-> "updateLeverage", ok |-> ~leverageFails]>>,
        abort |-> leverageFails]
  ELSE [calls |-> <<>>, abort |-> FALSE]

\* placeOrder, "Set leverage first if needed": updateLeverage is called when
\* params.leverage > 1 and its rejection is caught and logged
setLeverage(params, leverageFails) ==
  IF params.leverage > 1
  THEN [calls |-> <<[call |-> "updateLeverage", ok |-> ~leverageFails]>>,
        abort |-> FALSE]
  ELSE [calls |-> <<>>, abort |-> FALSE]

\* mutant of orderIdOf: the filled branch is looked at first
orderIdOfFilledFirst(status) ==
  IF status.filled # <<>> THEN <<status.filled[1].oid>>
  ELSE IF status.resting # <<>> THEN <<status.resting[1].oid>>
  ELSE <<>>

\* placeOrder: result.status.resting?.oid || result.status.filled?.oid, <<>>
\* when both are missing
orderIdOf(status) ==
  IF status.resting # <<>> THEN <<status.resting[1].oid>>
  ELSE IF status.filled # <<>> THEN <<status.filled[1].oid>>
  ELSE <<>>

\* placeOrder (exchangeClient is set by the constructor): the parameter
\* check, the dry-run return, the leverage update, the order call and the
\* reading of its response; an error that is not a TradingError is wrapped
\* by the catch into TradingError('Failed to place order', true)
placeOrder(params, dryRun, leverageFails, response) ==
  IF params.coin = "" \/ rejectsSz(params.sz)
  THEN Throws(<<>>, TradingError("Invalid order parameters", FALSE))
  ELSE IF dryRun THEN ReturnsId(<<>>, "dry-run-order-id")
  ELSE
    LET lev == setLeverage(params, leverageFails)
        calls == lev.calls \o <<[call |-> "order", ok |-> ~response.rejects]>>
    IN IF lev.abort
       THEN Throws(lev.calls, TradingError("Failed to place order", TRUE))
       ELSE IF response.rejects
       THEN Throws(calls, TradingError("Failed to place order", TRUE))
       ELSE IF response.result = <<>> \/ response.result[1].status = <<>>
       THEN Throws(calls, TradingError("Invalid order response", TRUE))
       ELSE IF orderIdOf(response.result[1].status[1]) = <<>>
       THEN Throws(calls,
                   TradingError("Order placed but no order ID returned", TRUE))
       ELSE ReturnsId(calls, orderIdOf(response.result[1].status[1])[1])

\* the state before a call of placeOrder, in dry-run or not
InitOrder ==
  /\ impl = "retry"
  /\ DRY_RUN \in BOOLEAN
  /\ run = "init"
  /\ sockets = <<>>
  /\ wsClient = 0
  /\ isConnected = FALSE
  /\ timers = <<>>
  /\ unsubscribeFn = "none"
  /\ stopped = FALSE
  /\ reconnects = 0
  /\ exhausted = FALSE
  /\ fatal = <<>>
  /\ activeTrades = {}
  /\ handlers = <<>>
  /\ fillsLeft = 0
  /\ tradeSize = <<>> /\ orderSz = <<>> /\ lastResult = <<>>
  /\ intervalId = "none" /\ inFlight = {} /\ cycles = 0
  /\ args \in {<<a>> : a \in PlaceOrderInputs}
  /\ result = <<>>

PlaceOrder ==
  Return(placeOrder(args[1].params, DRY_RUN, args[1].leverageFails,
                    args[1].response))

SpecOrder == InitOrder /\ [][PlaceOrder]_vars

\* ------------------------------------------------------------ claims
InFlight == {i \in DOMAIN handlers : handlers[i].pc # "done"}

\* handler i calls placeOrder in this step
PlacesOrder(i) == handlers[i].pc # "order" /\ handlers'[i].pc = "order"

\* handler i writes the ledger in this step
UpdatesLedger(i) == handlers[i].outcome # "copied" /\ handlers'[i].outcome = "copied"

\* handler h has called placeOrder
HasOrdered(h) == h.pc \in {"order", "orderWait"} \/ (h.pc = "done" /\ h.attempt >= 1)

\* C1: the number of coins in activeTrades never exceeds
\* MAX_CONCURRENT_TRADES, under any interleaving of handleFill invocations
C1_ActiveTradesWithinCap == Cardinality(activeTrades) <= MAX_CONCURRENT_TRADES

\* C2: fill handling is serialized: while one fill is between its equity
\* read and its ledger write, no other fill is inside that sequence
C2_FillHandlingSerialized == Cardinality(InFlight) <= 1

\* C3: fills are processed in arrival order: when an earlier fill calls
\* placeOrder or writes the ledger, no later fill has called placeOrder yet
C3_ArrivalOrder ==
  [][\A i, j \in DOMAIN handlers :
       (i < j /\ (PlacesOrder(i) \/ UpdatesLedger(i))) => ~HasOrdered(handlers[j])]_vars

\* C4: a step of a fill's handling that does not end in a successful order
\* leaves activeTrades as it was, and activeTrades changes only in the step
\* in which a fill's order succeeded
C4_FailedFillLeavesLedger ==
  [][/\ \A i \in DOMAIN handlers :
          (handlers'[i] # handlers[i] /\ handlers'[i].outcome # "copied")
            => activeTrades' = activeTrades
     /\ activeTrades' # activeTrades
          => \E i \in DOMAIN handlers : handlers[i].pc = "order" /\ UpdatesLedger(i)]_vars

\* a close failed after the last placeOrder attempt and its coin is still
\* in the ledger
C4_Witness ==
  \E i \in DOMAIN handlers :
    /\ handlers[i].outcome = "failed"
    /\ handlers[i].attempt = maxRetries
    /\ getTradeAction(handlers[i].fill) = "close"
    /\ handlers[i].fill.coin \in activeTrades

\* C5: on a successful order 'open' adds the fill's coin, 'close' removes
\* it and 'reduce' leaves the set as it is; no other coin's membership changes
C5_SuccessfulOrderLedger ==
  [][\A i \in DOMAIN handlers :
       UpdatesLedger(i) =>
         \A c \in Coins :
           (c \in activeTrades') <=>
             IF c # handlers[i].fill.coin THEN c \in activeTrades
             ELSE \/ getTradeAction(handlers[i].fill) = "open"
                  \/ (getTradeAction(handlers[i].fill) = "reduce" /\ c \in activeTrades)]_vars

\* a reduce succeeded and its coin is still in the ledger
C5_Witness ==
  \E i \in DOMAIN handlers :
    /\ handlers[i].outcome = "copied"
    /\ getTradeAction(handlers[i].fill) = "reduce"
    /\ handlers[i].fill.coin \in activeTrades

\* the unsubscribe closure has run
Unsubscribed == stopped /\ unsubscribeFn = "none"

\* C6: after the unsubscribe function has run no reconnect timer is armed,
\* no new socket is created and onFill is not invoked again
C6_StaysClosedAfterUnsubscribe ==
  [][Unsubscribed =>
       /\ Len(timers') <= Len(timers)
       /\ Len(sockets') <= Len(sockets)
       /\ handlers' = handlers]_vars

\* C7: at most maxAttempts reconnection attempts are made after a disconnect
\* when every attempt fails
C7_ReconnectsBounded == reconnects <= maxAttempts

\* C8: when the reconnection attempts are exhausted the fatal error reaches
\* the supervisor exactly once
C8_ExhaustionFatalOnce ==
  exhausted =>
    Len(SelectSeq(fatal, LAMBDA e : e = "Max reconnection attempts reached")) = 1

\* C9: executeTrade never raises: once it has ended it has returned a
\* TradeResult, successful or failed with an error message, and a handler
\* that called placeOrder ends with executeTrade's result
C9_ExecuteTradeNeverRaises ==
  \A i \in DOMAIN handlers :
    LET h == handlers[i] IN
    /\ h.exec # "raised"
    /\ h.exec = "returned" =>
         \/ h.outcome = "copied"
         \/ (h.outcome = "failed" /\ h.error # "")
    /\ (h.pc = "done" /\ h.attempt >= 1) => h.exec = "returned"

\* executeTrade returned a failed result after the last attempt
C9_Witness ==
  \E i \in DOMAIN handlers :
    /\ handlers[i].exec = "returned"
    /\ handlers[i].outcome = "failed"
    /\ handlers[i].attempt = maxRetries

\* C10: an order attempt is retried if and only if its failure is
\* retryable: after the non-retryable rejection of the parameters no other
\* attempt is waited for, and after a retryable failure the fill does not
\* end as failed while attempts remain
C10_RetriedIffRetryable ==
  [][\A i \in DOMAIN handlers :
       handlers[i].pc = "order" =>
         /\ handlers[i].params = "bad" => handlers'[i].pc # "orderWait"
         /\ (handlers[i].params = "good" /\ handlers[i].attempt < maxRetries)
              => handlers'[i].outcome # "failed"]_vars

\* C11: for one fill placeOrder is called at most maxRetries times, and
\* when the last attempt fails executeTrade returns a failed TradeResult
\* whose error is the message of the error that attempt raised
C11_AtMostThreeCallsLastError ==
  [][\A i \in DOMAIN handlers :
       /\ HasOrdered(handlers'[i]) => handlers'[i].attempt <= maxRetries
       /\ (handlers[i].pc = "order" /\ handlers'[i].pc = "done") =>
          \A out \in PlaceOrderOutcomes(handlers[i].params, DRY_RUN) :
            (OrderResolve(i, out) /\ ~out.ok) =>
              /\ handlers'[i].exec = "returned"
              /\ handlers'[i].outcome = "failed"
              /\ handlers'[i].error = out.error.message]_vars

\* retryWithBackoff gave up after the third placeOrder call, which the
\* exchange answered without an order id
C11_Witness ==
  \E i \in DOMAIN handlers :
    /\ impl = "retry"
    /\ handlers[i].pc = "done"
    /\ handlers[i].attempt = maxRetries
    /\ handlers[i].outcome = "failed"
    /\ handlers[i].error = "Order placed but no order ID returned"

\* C12: when validateTradeParams rejects the computed trade, executeTrade
\* calls placeOrder not even once and returns a failed TradeResult whose
\* error is the validation reason
C12_ValidationRejectNoOrder ==
  [][\A i \in DOMAIN handlers :
       (handlers[i].pc = "positions" /\ handlers'[i] # handlers[i]) =>
       \A out \in PositionsOutcomes, calc \in CalcOutcomes(handlers[i].nanEq) :
         ( /\ out.ok
           /\ ~calc.valid
           /\ ~maxConcurrentReached(activeTrades, getTradeAction(handlers[i].fill))
           /\ ~invalidSize(impl, calc.size)
           /\ PositionsResolve(i, out, calc) ) =>
             /\ handlers'[i].pc = "done"
             /\ ~HasOrdered(handlers'[i])
             /\ handlers'[i].exec = "returned"
             /\ handlers'[i].outcome = "failed"
             /\ handlers'[i].error = "validation"]_vars

\* executeTrade returned the validation reason for a close without any
\* placeOrder call
C12_Witness ==
  \E i \in DOMAIN handlers :
    /\ handlers[i].pc = "done"
    /\ handlers[i].exec = "returned"
    /\ handlers[i].error = "validation"
    /\ handlers[i].attempt = 0
    /\ getTradeAction(handlers[i].fill) = "close"

\* C13: with DRY_RUN enabled no placeOrder call of any fill reaches the
\* exchange's updateLeverage or order endpoint; a call that passes the
\* parameter check returns the sentinel order id
C13_DryRunNoExchangeCall ==
  [][DRY_RUN =>
       \A i \in DOMAIN handlers :
         (handlers[i].pc = "order" /\ handlers'[i] # handlers[i]) =>
         \A out \in PlaceOrderOutcomes(handlers[i].params, DRY_RUN) :
           OrderResolve(i, out) =>
             /\ ~out.called
             /\ handlers[i].params = "good" => handlers'[i].outcome = "copied"]_vars

\* a fill was copied in a dry run
C13_Witness ==
  /\ DRY_RUN
  /\ \E i \in DOMAIN handlers :
       handlers[i].outcome = "copied" /\ handlers[i].attempt = 1

\* C14: when calculateTradeParams runs for an 'open' fill while activeTrades
\* holds MAX_CONCURRENT_TRADES coins or more, the fill is skipped: no trade
\* params, no placeOrder call, the ledger unchanged, and neither an error
\* nor a failed TradeResult
C14_GateSkipsOpen ==
  [][\A i \in DOMAIN handlers :
       (handlers[i].pc = "positions" /\ handlers'[i] # handlers[i]) =>
       \A out \in PositionsOutcomes, calc \in CalcOutcomes(handlers[i].nanEq) :
         ( /\ out.ok
           /\ getTradeAction(handlers[i].fill) = "open"
           /\ Cardinality(activeTrades) >= MAX_CONCURRENT_TRADES
           /\ PositionsResolve(i, out, calc) ) =>
             /\ handlers'[i].pc = "done"
             /\ handlers'[i].outcome = "skipped"
             /\ handlers'[i].exec = "none"
             /\ handlers'[i].error = ""
             /\ ~HasOrdered(handlers'[i])
             /\ activeTrades' = activeTrades]_vars

\* an open for a coin not in the full ledger was skipped
C14_Witness ==
  \E i \in DOMAIN handlers :
    /\ handlers[i].outcome = "skipped"
    /\ getTradeAction(handlers[i].fill) = "open"
    /\ handlers[i].fill.coin \notin activeTrades
    /\ Cardinality(activeTrades) = MAX_CONCURRENT_TRADES

\* the ways handleFill returns
Returned == {"copied", "skipped", "failed", "fetchError", "error"}

\* the initial states of SpecLater are states the engine reaches
LaterReached ==
  /\ run = "running" /\ sockets = <<"open">> /\ ~stopped /\ fatal = <<>>
  /\ activeTrades = {} /\ ~DRY_RUN
  /\ handlers \in {<<h>> : h \in FailedHandlers(impl)}

\* C15: whatever errors the gateway raises while a fill is handled,
\* handleFill returns (no rejection reaches the process), its steps leave
\* the connection and the subscription as they were, and a fill delivered
\* afterwards starts its own handling
C15_FillFailureNotFatal ==
  /\ [](\A i \in DOMAIN handlers :
          /\ handlers[i].pc = "done" <=> handlers[i].outcome \in Returned
          /\ handlers[i].outcome \in Returned \cup {"none"})
  /\ [][/\ (\E i \in DOMAIN handlers : handlers'[i] # handlers[i]) =>
              UNCHANGED <<sockets, wsClient, isConnected, timers, unsubscribeFn,
                          stopped, fatal, run>>
        /\ \A s \in DOMAIN sockets, batch \in Batches :
             Message(s, batch) =>
               \A k \in 1..Len(batch) :
                 handlers'[Len(handlers) + k] = handleFill(batch[k])]_vars

\* a fill delivered after the failed one was copied
C15_Witness ==
  /\ Len(handlers) = 2
  /\ handlers[1].outcome \in {"failed", "fetchError", "error"}
  /\ handlers[2].outcome = "copied"
  /\ handlers[2].fill.coin = "ETH"

\* C16: stopping does not abort an order execution in flight: the process
\* does not end while an executeTrade waits for placeOrder or for the
\* backoff before its next attempt
C16_StopLetsExecutionFinish ==
  run = "exited" =>
    \A i \in DOMAIN handlers : handlers[i].pc \notin {"order", "orderWait"}

\* a frame that decodes to a userFills message with an array of fills
Decodes(frame) ==
  frame.json /\ frame.channel = "userFills" /\ frame.hasData /\ frame.isArray

\* the connection and the subscription are as they were
ConnectionKept ==
  UNCHANGED <<sockets, wsClient, isConnected, timers, reconnects, exhausted,
              unsubscribeFn, stopped, run, fatal>>

\* C17: when the consumer throws for some fills of a message, every fill of
\* the message is still passed to onFill, in order, the connection is kept,
\* and this holds for every message, also after an earlier throw
C17_ConsumerThrowIsolated ==
  [][\A i \in DOMAIN sockets, frame \in Frames :
       \A throwing \in SUBSET (1..Len(frame.items)) :
         (Receive(i, frame, throwing) /\ Decodes(frame)) =>
           /\ Len(handlers') = Len(handlers) + Len(frame.items)
           /\ \A k \in 1..Len(frame.items) :
                /\ handlers'[Len(handlers) + k].fill = frame.items[k]
                /\ handlers'[Len(handlers) + k].outcome = "thrown" <=> k \in throwing
           /\ ConnectionKept]_vars

\* the consumer threw for the first fill of a message and was called for
\* the second one, on a socket that is still open
C17_Witness ==
  /\ Len(handlers) = 2
  /\ handlers[1].outcome = "thrown"
  /\ handlers[2].pc = "equity"
  /\ fillsLeft = 0
  /\ \E i \in DOMAIN sockets : sockets[i] = "open"

\* C18: a frame that does not decode (invalid JSON, another channel, no
\* data, data that is not an array) causes no onFill call, keeps the
\* connection and arms no reconnect; the frames after it are dispatched
C18_UndecodableDropped ==
  [][\A i \in DOMAIN sockets, frame \in Frames :
       \A throwing \in SUBSET (1..Len(frame.items)) :
         Receive(i, frame, throwing) =>
           /\ ~Decodes(frame) => handlers' = handlers
           /\ Decodes(frame) => Len(handlers') = Len(handlers) + Len(frame.items)
           /\ ConnectionKept]_vars

\* one frame was dropped and the only fill dispatched came in another frame
C18_Witness ==
  /\ fillsLeft < MaxFills - Len(handlers)
  /\ Len(handlers) >= 1
  /\ \A i \in DOMAIN handlers : handlers[i].pc = "equity"
  /\ \E i \in DOMAIN sockets : sockets[i] = "open"

\* a size string with no trailing zero after a decimal point and no
\* trailing decimal point
Canonical(sz) ==
  \/ sz = <<>>
  \/ /\ sz[Len(sz)] # "."
     /\ (\E j \in 1..Len(sz) : sz[j] = ".") => sz[Len(sz)] # "0"

\* C19: every size string passed to the exchange order call is canonical
C19_OrderSizeCanonical == orderSz # <<>> => Canonical(orderSz[1])

\* an order was sent for a size that toFixed wrote with trailing zeros
C19_Witness ==
  /\ orderSz = <<<<"1", "0", "5", ".", "1", "2", "3">>>>
  /\ tradeSize = orderSz

\* C20: a health-check cycle puts a coin in the drift map if and only if
\* the target holds it and the sizes differ by more than the limit (our
\* size 0 when we hold none), or we hold it and the target does not; in the
\* second case the target size recorded is 0
C20_DriftMap ==
  lastResult # <<>> =>
    LET ours == lastResult[1].ourPositions
        theirs == lastResult[1].targetPositions
        flagged == DOMAIN lastResult[1].drift
    IN \A c \in Coins :
         /\ c \in flagged <=>
              \/ /\ c \in DOMAIN theirs
                 /\ Abs(theirs[c] - (IF c \in DOMAIN ours THEN ours[c] ELSE 0))
                      > driftLimit
              \/ c \in DOMAIN ours /\ c \notin DOMAIN theirs
         /\ (c \in DOMAIN ours /\ c \notin DOMAIN theirs) =>
              lastResult[1].drift[c].targetSize = 0

\* we hold 0.05 BTC against the target's 0.10 and 0.001 ETH the target does
\* not hold: both are flagged
C20_Witness ==
  /\ lastResult # <<>>
  /\ lastResult[1].ourPositions = [c \in {"BTC", "ETH"} |-> IF c = "BTC" THEN 50 ELSE 1]
  /\ lastResult[1].targetPositions = [c \in {"BTC"} |-> 100]
  /\ DOMAIN lastResult[1].drift = {"BTC", "ETH"}

\* C22: the size string passed to the exchange order call denotes the same
\* number as the size of the CopyTradeParams it was made from: the second
\* stripping of trailing zeros in placeOrder changes no value
C22_SizeValuePreserved ==
  orderSz # <<>> => parseFloat(orderSz[1]) = parseFloat(tradeSize[1])
\* shutdown's calls copyTrader.stop() and healthChecker.stop() have returned
StopReturned == stopped /\ unsubscribeFn = "none"

C23_NoAttemptAfterOrderWentThrough ==
  [][\A i \in DOMAIN handlers :
       (handlers[i].pc = "order" /\ handlers'[i] # handlers[i]) =>
       \A out \in PlaceOrderOutcomes(handlers[i].params, DRY_RUN) :
         (out.sent /\ OrderResolve(i, out)) => handlers'[i].pc = "done"]_vars

\* C24: getTradeAction gives 'open' for Open Long and Open Short; for Close
\* Long and Close Short 'close' when abs(startPosition) <= fill size
\* (equality included) and 'reduce' otherwise; 'reduce' for any other dir
C24_TradeActionClasses ==
  result # <<>> =>
    LET fill == args[1] IN
    /\ fill.dir \in {"Open Long", "Open Short"} => result[1] = "open"
    /\ fill.dir \in {"Close Long", "Close Short"} =>
         /\ (fill.startPosition <= fill.sz /\ 0 - fill.startPosition <= fill.sz)
              => result[1] = "close"
         /\ (fill.startPosition > fill.sz \/ 0 - fill.startPosition > fill.sz)
              => result[1] = "reduce"
    /\ fill.dir \notin {"Open Long", "Open Short", "Close Long", "Close Short"}
         => result[1] = "reduce"

\* a Close Short whose size equals the short position it closes
C24_Witness ==
  /\ result = <<"close">>
  /\ args[1].dir = "Close Short"
  /\ args[1].startPosition = 0 - args[1].sz
\* C25: an 'open' is mirrored as buy (B) for Open Long and sell (A) for Open
\* Short with reduceOnly false; a 'reduce' or 'close' has reduceOnly true and
\* the side opposite to the sign of the target's current position (positive:
\* sell, negative: buy), or the fill's own side when the target holds no
\* position for the coin
C25_SideAndReduceOnly ==
  result # <<>> =>
    LET fill == args[1].fill
        targetPosition == args[1].targetPosition
        action == getTradeAction(fill)
    IN /\ action = "open" =>
            /\ ~result[1].reduceOnly
            /\ fill.dir = "Open Long" => result[1].side = "B"
            /\ fill.dir = "Open Short" => result[1].side = "A"
       /\ action \in {"reduce", "close"} =>
            /\ result[1].reduceOnly
            /\ targetPosition = <<>> => result[1].side = fill.side
            /\ (targetPosition # <<>> /\ targetPosition[1] > 0) => result[1].side = "A"
            /\ (targetPosition # <<>> /\ targetPosition[1] < 0) => result[1].side = "B"

\* a partial close of a short: the mirrored order buys although the fill's
\* side says sell
C25_Witness ==
  /\ result # <<>>
  /\ getTradeAction(args[1].fill) = "reduce"
  /\ args[1].targetPosition # <<>> /\ args[1].targetPosition[1] < 0
  /\ args[1].fill.side = "A"
  /\ result[1] = [side |-> "B", reduceOnly |-> TRUE]
\* the checks of validateTradeParams that fail for the arguments a, in the
\* order the specification fixes
FailingChecks(a) ==
  LET notional == a.size * a.price
      fails == [k \in 1..4 |->
                 CASE k = 1 -> \E b \in BLOCKED_ASSETS : toUpperCase(a.coin) = b
                   [] k = 2 -> notional < MIN_NOTIONAL
                   [] k = 3 -> a.leverage > MAX_LEVERAGE
                   [] k = 4 -> notional * 100 > a.ourEquity * MAX_POSITION_SIZE_PERCENT]
  IN {k \in 1..4 : fails[k]}

CheckReasons == <<"blocked", "notional", "leverage", "cap">>

\* C26: validateTradeParams checks blocked asset (whatever the case of the
\* coin), minimum notional, leverage, position cap in this order and returns
\* the reason of the first check that fails, and valid when none fails; a
\* coin that is blocked and below the minimum notional is reported blocked
C26_FirstFailingCheck ==
  result # <<>> =>
    LET failing == FailingChecks(args[1]) IN
    /\ result[1].valid <=> failing = {}
    /\ failing # {} =>
         result[1].reason =
           CheckReasons[CHOOSE k \in failing : \A j \in failing : k <= j]

\* a lower-case blocked coin below the minimum notional was reported blocked
C26_Witness ==
  /\ result = <<[valid |-> FALSE, reason |-> "blocked"]>>
  /\ args[1].coin = "btc"
  /\ args[1].size * args[1].price < MIN_NOTIONAL
\* ourEquity * MAX_POSITION_SIZE_PERCENT / 100
SizeCap(a) == Frac(a.ourEquity * MAX_POSITION_SIZE_PERCENT, 100)

\* C27: the size calculatePositionSize returns never exceeds
\* ourEquity * MAX_POSITION_SIZE_PERCENT / 100, the target's equity being
\* zero or not
C27_SizeWithinCap ==
  result # <<>> => leq(result[1], SizeCap(args[1]))

\* C28: with targetEquity = 0 calculatePositionSize returns exactly
\* targetSize * SIZE_MULTIPLIER (and the call returns: nothing is raised)
C28_ZeroEquityFallback ==
  (result # <<>> /\ args[1].targetEquity = 0) =>
    /\ result[1].num * args[1].SIZE_MULTIPLIER.den
         = args[1].targetSize * args[1].SIZE_MULTIPLIER.num * result[1].den
    /\ result[1].den > 0

\* the fallback returned 1000 * 1/2 = 500
C28_Witness ==
  /\ result = <<Frac(500, 1)>>
  /\ args[1].targetEquity = 0
  /\ args[1].targetSize = 1000
  /\ args[1].SIZE_MULTIPLIER = Frac(1, 2)

\* C29: for targetEquity > 0 calculatePositionSize returns the smaller of
\* (ourEquity / targetEquity) * targetSize * SIZE_MULTIPLIER and
\* ourEquity * MAX_POSITION_SIZE_PERCENT / 100; for 5000, 10000, 1000 and
\* multiplier 1 that is the uncapped 500
C29_ScaledThenCapped ==
  (result # <<>> /\ args[1].targetEquity > 0) =>
    LET a == args[1]
        scaled == Frac(a.ourEquity * a.targetSize * a.SIZE_MULTIPLIER.num,
                       a.targetEquity * a.SIZE_MULTIPLIER.den)
    IN /\ leq(scaled, SizeCap(a)) => result[1] = scaled
       /\ ~leq(scaled, SizeCap(a)) => result[1] = SizeCap(a)
       /\ (a.ourEquity = 5000 /\ a.targetEquity = 10000 /\ a.targetSize = 1000
           /\ a.SIZE_MULTIPLIER = Frac(1, 1)) => result[1] = Frac(500, 1)

\* the scenario of the specification: 500, below the cap of 2500
C29_Witness ==
  /\ result = <<Frac(500, 1)>>
  /\ args[1].ourEquity = 5000 /\ args[1].targetEquity = 10000
  /\ args[1].targetSize = 1000 /\ args[1].SIZE_MULTIPLIER = Frac(1, 1)
\* the factors the size or the multiplier is scaled by
Factors == {2, 3}

\* calculatePositionSize for the arguments a with targetSize scaled by k
ScaledSize(a, k) ==
  calculatePositionSize(k * a.targetSize, a.ourEquity, a.targetEquity,
                        a.SIZE_MULTIPLIER)

\* calculatePositionSize for the arguments a with SIZE_MULTIPLIER scaled by k
ScaledMultiplier(a, k) ==
  calculatePositionSize(a.targetSize, a.ourEquity, a.targetEquity,
                        mul(Frac(k, 1), a.SIZE_MULTIPLIER))

C40_DriftDifference ==
  lastResult # <<>> =>
    \A c \in DOMAIN lastResult[1].drift :
      LET entry == lastResult[1].drift[c] IN
      /\ entry.difference >= 0
      /\ entry.difference = Abs(entry.targetSize - entry.ourSize)
\* C31: a fill whose computed size is NaN, not finite, zero or negative is
\* skipped as a no-op: handleFill ends without a placeOrder call, without a
\* failed TradeResult or an error, and the ledger stays as it is
C31_InvalidSizeSkipped ==
  [][\A i \in DOMAIN handlers :
       (handlers[i].pc = "positions" /\ handlers'[i] # handlers[i]) =>
       \A out \in PositionsOutcomes, calc \in CalcOutcomes(handlers[i].nanEq) :
         ( /\ out.ok
           /\ calc.size # "pos"
           /\ PositionsResolve(i, out, calc) ) =>
             /\ handlers'[i].pc = "done"
             /\ handlers'[i].outcome = "skipped"
             /\ handlers'[i].exec = "none"
             /\ handlers'[i].error = ""
             /\ ~HasOrdered(handlers'[i])
             /\ activeTrades' = activeTrades]_vars
\* C32: the leverage of a computed trade is the smaller of the target's
\* leverage for the coin and MAX_LEVERAGE when the target has a position
\* with a leverage, and 1 otherwise; it is never above MAX_LEVERAGE
C32_LeverageCapped ==
  result # <<>> =>
    LET p == args[1].targetPosition
        known == p # <<>> /\ p[1].leverage # <<>>
    IN /\ result[1] <= MAX_LEVERAGE
       /\ ~known => result[1] = 1
       /\ known =>
            \E v \in 1..MaxTargetLeverage :
              /\ digits(v) = p[1].leverage[1].value
              /\ v <= MAX_LEVERAGE => result[1] = v
              /\ v > MAX_LEVERAGE => result[1] = MAX_LEVERAGE

\* the target trades at 50x: the trade is made at MAX_LEVERAGE
C32_Witness ==
  /\ result = <<MAX_LEVERAGE>>
  /\ args[1].targetPosition = <<[leverage |-> <<[value |-> <<"5", "0">>]>>]>>
\* C33: the timer that precedes the k-th consecutive reconnection attempt
\* after a disconnect (k - 1 attempts made since the last 'open') runs for
\* min(1000 * 2^(k-1), 30000) ms
C33_ReconnectBackoff ==
  \A t \in DOMAIN timers :
    reconnectDelay(timers[t]) = reconnectDelay(reconnects + 1)
\* C34: when a socket that had opened (a successful subscription) closes, the
\* reconnection timer armed by its 'close' handler is attempt 1 and runs for
\* the base delay, whatever the attempt number that led to that socket
C34_ResetAfterSuccess ==
  [][\A i \in DOMAIN sockets :
       (sockets[i] = "open" /\ SocketClose(i))
         => /\ timers' = Append(timers, 1)
            /\ reconnectDelay(timers'[Len(timers')]) = baseDelay]_vars

\* a socket that had opened and delivered a fill has closed, no attempt has
\* been made since, and the timer of attempt 1 is pending
C34_Witness ==
  /\ run = "running"
  /\ handlers # <<>>
  /\ sockets = <<>>
  /\ reconnects = 0
  /\ timers = <<1>>
  /\ reconnectDelay(timers[1]) = baseDelay
\* C35: not in dry-run, a call of placeOrder that passes the parameter check
\* calls updateLeverage exactly when leverage > 1, before the order call,
\* and makes the order call whether or not updateLeverage failed
C35_LeverageBestEffort ==
  (result # <<>> /\ ~DRY_RUN /\ args[1].params.coin # ""
     /\ ~rejectsSz(args[1].params.sz))
    => LET calls == result[1].calls
           updates == {k \in DOMAIN calls : calls[k].call = "updateLeverage"}
       IN /\ (updates # {}) <=> (args[1].params.leverage > 1)
          /\ updates \subseteq {1}
          /\ calls[Len(calls)].call = "order"
          /\ \A k \in DOMAIN calls : calls[k].call = "order" => k = Len(calls)

\* updateLeverage was called and failed, and the order call was made and
\* gave an order id
C35_Witness ==
  /\ result # <<>>
  /\ ~DRY_RUN
  /\ args[1].leverageFails
  /\ result[1].calls = <<[call |-> "updateLeverage", ok |-> FALSE],
                         [call |-> "order", ok |-> TRUE]>>
  /\ result[1].returned # <<>>

\* C36: when the order call is answered, placeOrder returns the oid of the
\* response's resting branch, else the oid of its filled branch, and with
\* neither branch, no status or no result it throws a retryable TradingError
C36_OrderIdOrRetryable ==
  (result # <<>> /\ result[1].calls # <<>>
     /\ result[1].calls[Len(result[1].calls)] = [call |-> "order", ok |-> TRUE])
    => LET res == args[1].response.result
           status == IF res = <<>> THEN <<>> ELSE res[1].status
       IN IF status # <<>> /\ status[1].resting # <<>>
          THEN result[1].returned = <<status[1].resting[1].oid>>
          ELSE IF status # <<>> /\ status[1].filled # <<>>
          THEN result[1].returned = <<status[1].filled[1].oid>>
          ELSE /\ result[1].returned = <<>>
               /\ result[1].thrown # <<>>
               /\ result[1].thrown[1].name = "TradingError"
               /\ isRetryable(result[1].thrown[1])

\* a response with both branches gave the resting oid
C36_Witness ==
  /\ result # <<>>
  /\ args[1].response.result # <<>>
  /\ args[1].response.result[1].status
       = <<[resting |-> <<[oid |-> "1001"]>>, filled |-> <<[oid |-> "1002"]>>]>>
  /\ result[1].returned = <<"1001">>
\* C37: a 'reduce' or 'close' fill is never skipped because of the number of
\* active trades: whatever the set holds, it is skipped only for an invalid
\* size, and with a valid size and valid params it goes on to placeOrder;
\* a close that succeeds takes its coin out of the set, which then holds one
\* coin less if the coin was in it
C37_GateOnlyForOpen ==
  [][/\ \A i \in DOMAIN handlers :
          (handlers[i].pc = "positions" /\ handlers'[i] # handlers[i]
             /\ getTradeAction(handlers[i].fill) # "open") =>
          \A out \in PositionsOutcomes, calc \in CalcOutcomes(handlers[i].nanEq) :
            (out.ok /\ PositionsResolve(i, out, calc)) =>
              /\ handlers'[i].outcome = "skipped" => invalidSize(impl, calc.size)
              /\ (calc.size = "pos" /\ calc.valid) =>
                    /\ handlers'[i].pc = "order"
                    /\ handlers'[i].params = calc.params
     /\ \A i \in DOMAIN handlers :
          (handlers[i].pc = "order" /\ handlers'[i].outcome = "copied"
             /\ getTradeAction(handlers[i].fill) = "close") =>
            /\ activeTrades' = activeTrades \ {handlers[i].fill.coin}
            /\ handlers[i].fill.coin \in activeTrades =>
                  Cardinality(activeTrades') = Cardinality(activeTrades) - 1]_vars

\* with the set at its cap a close is at its placeOrder call
C37_Witness ==
  \E i \in DOMAIN handlers :
    /\ Cardinality(activeTrades) >= MAX_CONCURRENT_TRADES
    /\ getTradeAction(handlers[i].fill) = "close"
    /\ handlers[i].pc = "order"
    /\ handlers[i].params = "good"
\* C38: at any time there is at most one socket that has not closed and at
\* most one pending reconnect timer (and never both), so that the fills of
\* a message cause one onFill call each
C38_OneSubscription ==
  /\ [](Len(sockets) + Len(timers) <= 1)
  /\ [][fillsLeft' # fillsLeft =>
          Len(handlers') = Len(handlers) + (fillsLeft - fillsLeft')]_vars

\* fills were delivered, the socket closed, and after two failed attempts,
\* the last of which threw, the one timer of attempt 2 is pending
C38_Witness ==
  /\ handlers # <<>>
  /\ reconnects >= 2
  /\ sockets = <<>>
  /\ timers = <<2>>
\* C39: when every gateway call returns or fails, every handleFill ends;
\* it makes at most 3 rounds of equity fetches, of position fetches and of
\* placeOrder calls, and waits only before a further attempt, at most twice
\* per retried step
C39_HandleFillTerminates ==
  /\ [](\A i \in DOMAIN handlers :
          /\ handlers[i].attempt <= maxRetries
          /\ handlers[i].pc \in {"equityWait", "positionsWait", "orderWait"}
               => handlers[i].attempt <= maxRetries - 1)
  /\ <>[](\A i \in DOMAIN handlers : handlers[i].pc = "done")

\* a handleFill ended after its third placeOrder call failed
C39_Witness ==
  \E i \in DOMAIN handlers :
    /\ handlers[i].pc = "done"
    /\ handlers[i].outcome = "failed"
    /\ handlers[i].attempt = maxRetries
====
